---- MODULE Spec2Model ----
(***************************************************************************)
(* Piece table of Maratripa/piece-table (src/src/lib.rs).                  *)
(*                                                                         *)
(* Strings are sequences of one-byte characters, so String::len and the    *)
(* byte ranges used for slicing coincide with character counts.  Vec       *)
(* indices keep the 0-based values of the Rust code; element i of a Vec v  *)
(* is v[i + 1] here.  usize arithmetic is modelled at a reduced width of   *)
(* UsizeBits bits: with overflow checks (debug profile) an overflow        *)
(* panics, without them (release profile) the value wraps.  A panic ends   *)
(* the run; the variables then hold what had been written when it struck.  *)
(* The profile is an input of each call: exploration stops at a table that *)
(* holds a wrapped span, so a run meets at most one overflow and choosing  *)
(* the profile at that call is the same as fixing it for the build.        *)
(***************************************************************************)
EXTENDS Integers, Sequences, FiniteSets, TLC

\* Bounds of the model.
MaxInitLen == 2
MaxInsertLen == 1
MaxAppendLen == 2
MaxPieces == 3
MaxTextLen == 3
MaxEmptyPieces == 1
UsizeBits == 6

\* The loaded text is a prefix of Source, and the text handed to insert is
\* the next stretch of Typed, so every byte of either buffer is distinct.
Source == <<"a", "b", "c", "d", "e", "f">>
Typed == <<"u", "v", "w", "x", "y", "z">>
Paths == {"test.txt"}

W == 2 ^ UsizeBits
MaxLen == MaxInitLen + MaxAppendLen

InitTexts == {SubSeq(Source, 1, k) : k \in 0..MaxInitLen}
PersistTexts == {SubSeq(Source, 1, k) : k \in 0..(MaxInitLen - 1)}
InsertTexts(ab) ==
  {SubSeq(Typed, Len(ab) + 1, Len(ab) + k) : k \in 0..MaxInsertLen}

RECURSIVE SumLengths(_)
SumLengths(ps) ==
  IF ps = <<>> THEN 0 ELSE Head(ps).length + SumLengths(Tail(ps))

Ovf(x) == x < 0 \/ x >= W
Wrap(x) == (x + W) % W

VARIABLES read_buf, append_buf, pieces, fs, last, run

vars == <<read_buf, append_buf, pieces, fs, last, run>>

Piece(b, s, l) == [buffer |-> b, start |-> s, length |-> l]

\* Vec::insert and Vec::remove for an index within range.
VecInsert(v, i, x) == SubSeq(v, 1, i) \o <<x>> \o SubSeq(v, i + 1, Len(v))
VecRemove(v, i) == SubSeq(v, 1, i) \o SubSeq(v, i + 2, Len(v))

ReadBufferStr(buf) == [kind |-> "Str", buf |-> buf, path |-> ""]
ReadBufferFile(path) == [kind |-> "File", buf |-> <<>>, path |-> path]

NoFile == [exists |-> FALSE, content |-> <<>>]
FileOf(text) == [exists |-> TRUE, content |-> text]

----------------------------------------------------------------------------
\* Position resolution.

RECURSIVE find_loop(_, _, _, _, _)
find_loop(ps, position, i, counter, chk) ==
  IF i >= Len(ps) THEN [panic |-> FALSE, val |-> Len(ps)]
  ELSE LET sum == counter + ps[i + 1].length IN
       IF chk /\ Ovf(sum) THEN [panic |-> TRUE, val |-> 0]
       ELSE IF position < Wrap(sum) THEN [panic |-> FALSE, val |-> i]
       ELSE find_loop(ps, position, i + 1, Wrap(sum), chk)

find_piece_at_position(ps, position, chk) ==
  IF position = 0 THEN [panic |-> FALSE, val |-> 0]
  ELSE find_loop(ps, position, 0, 0, chk)

RECURSIVE border_loop(_, _, _, _, _)
border_loop(ps, position, i, counter, chk) ==
  IF i >= Len(ps) THEN [panic |-> FALSE, val |-> FALSE]
  ELSE LET sum == ps[i + 1].length + counter IN
       IF chk /\ Ovf(sum) THEN [panic |-> TRUE, val |-> FALSE]
       ELSE IF position = Wrap(sum) THEN [panic |-> FALSE, val |-> TRUE]
       ELSE border_loop(ps, position, i + 1, Wrap(sum), chk)

position_is_at_border(ps, position, chk) ==
  IF position = 0 THEN [panic |-> FALSE, val |-> TRUE]
  ELSE border_loop(ps, position, 0, 0, chk)

RECURSIVE split_loop(_, _, _, _, _)
split_loop(ps, split_index, i, counter, chk) ==
  IF i >= Len(ps) THEN
    \* fallback after the loop: (len - 1, last.length - 1 or 0)
    LET pi == Len(ps) - 1
        li == IF Len(ps) = 0 THEN 0 ELSE ps[Len(ps)].length - 1
    IN IF chk /\ (Ovf(pi) \/ Ovf(li)) THEN [panic |-> TRUE, piece |-> 0, at |-> 0]
       ELSE [panic |-> FALSE, piece |-> Wrap(pi), at |-> Wrap(li)]
  ELSE LET sum == counter + ps[i + 1].length
           off == split_index - counter
       IN IF chk /\ Ovf(sum) THEN [panic |-> TRUE, piece |-> 0, at |-> 0]
          ELSE IF split_index < Wrap(sum) THEN
                 IF chk /\ Ovf(off) THEN [panic |-> TRUE, piece |-> 0, at |-> 0]
                 ELSE [panic |-> FALSE, piece |-> i, at |-> Wrap(off)]
          ELSE split_loop(ps, split_index, i + 1, Wrap(sum), chk)

split_piece_index_and_lenght(ps, split_index, chk) ==
  split_loop(ps, split_index, 0, 0, chk)

----------------------------------------------------------------------------
\* Piece surgery.

\* divide_piece with the second half starting where the first one does.
divide_piece_same_start(ps, piece_index, split_length, chk) ==
  IF piece_index >= Len(ps) THEN [panic |-> TRUE, pieces |-> ps]
  ELSE LET piece == ps[piece_index + 1]
           p1 == VecRemove(ps, piece_index)
           p2 == VecInsert(p1, piece_index,
                           Piece(piece.buffer, piece.start, split_length))
           l2 == piece.length - split_length
       IN IF chk /\ Ovf(l2) THEN [panic |-> TRUE, pieces |-> p2]
          ELSE [panic |-> FALSE,
                pieces |-> VecInsert(p2, piece_index + 1,
                                     Piece(piece.buffer, piece.start, Wrap(l2)))]

\* divide_piece with the second half keeping the whole length of the piece.
divide_piece_full_length(ps, piece_index, split_length, chk) ==
  IF piece_index >= Len(ps) THEN [panic |-> TRUE, pieces |-> ps]
  ELSE LET piece == ps[piece_index + 1]
           p1 == VecRemove(ps, piece_index)
           p2 == VecInsert(p1, piece_index,
                           Piece(piece.buffer, piece.start, split_length))
           s2 == piece.start + split_length
       IN IF chk /\ Ovf(s2) THEN [panic |-> TRUE, pieces |-> p2]
          ELSE [panic |-> FALSE,
                pieces |-> VecInsert(p2, piece_index + 1,
                                     Piece(piece.buffer, Wrap(s2), piece.length))]

divide_piece(ps, piece_index, split_length, chk) ==
  IF piece_index >= Len(ps) THEN [panic |-> TRUE, pieces |-> ps]
  ELSE LET piece == ps[piece_index + 1]
           p1 == VecRemove(ps, piece_index)
           p2 == VecInsert(p1, piece_index,
                           Piece(piece.buffer, piece.start, split_length))
           s2 == piece.start + split_length
           l2 == piece.length - split_length
       IN IF chk /\ (Ovf(s2) \/ Ovf(l2)) THEN [panic |-> TRUE, pieces |-> p2]
          ELSE [panic |-> FALSE,
                pieces |-> VecInsert(p2, piece_index + 1,
                                     Piece(piece.buffer, Wrap(s2), Wrap(l2)))]

delete_and_join(ps, piece_index, chk) ==
  LET p1 == VecRemove(ps, piece_index)
      lm == Len(p1) - 1
  IN IF piece_index = 0 THEN [panic |-> FALSE, pieces |-> p1]
     ELSE IF chk /\ Ovf(lm) THEN [panic |-> TRUE, pieces |-> p1]
     ELSE IF piece_index = Wrap(lm) THEN [panic |-> FALSE, pieces |-> p1]
     ELSE IF piece_index >= Len(p1) THEN [panic |-> TRUE, pieces |-> p1]
     ELSE LET prev == p1[piece_index]
              next == p1[piece_index + 1]
              pe == prev.start + prev.length
              nl == prev.length + next.length
          IN IF prev.buffer = next.buffer
             THEN IF chk /\ Ovf(pe) THEN [panic |-> TRUE, pieces |-> p1]
                  ELSE IF Wrap(pe) = next.start
                  THEN IF chk /\ Ovf(nl) THEN [panic |-> TRUE, pieces |-> p1]
                       ELSE [panic |-> FALSE,
                             pieces |-> VecRemove(
                               [p1 EXCEPT ![piece_index].length = Wrap(nl)],
                               piece_index)]
                  ELSE [panic |-> FALSE, pieces |-> p1]
             ELSE [panic |-> FALSE, pieces |-> p1]

----------------------------------------------------------------------------
\* Construction and materialization.

\* from_str with the initial piece one byte short.
from_str_short(buf) ==
  [read_buf |-> ReadBufferStr(buf),
   append_buf |-> <<>>,
   pieces |-> <<Piece("ReadOnly", 0,
                      IF Len(buf) = 0 THEN 0 ELSE Len(buf) - 1)>>]

from_str(buf) ==
  [read_buf |-> ReadBufferStr(buf),
   append_buf |-> <<>>,
   pieces |-> <<Piece("ReadOnly", 0, Len(buf))>>]

\* file_size is the metadata length of the file opened at path.
from_file(path, file_size) ==
  [read_buf |-> ReadBufferFile(path),
   append_buf |-> <<>>,
   pieces |-> <<Piece("ReadOnly", 0, file_size)>>]

\* &buf[start..end]: panics when start > end or end > buf.len().
SliceOk(buf, start, end) == start <= end /\ end <= Len(buf)
Slice(buf, start, end) == SubSeq(buf, start + 1, end)

RECURSIVE connect_loop(_, _, _, _, _, _)
connect_loop(ps, rb, ab, i, result, chk) ==
  IF i >= Len(ps) THEN [panic |-> FALSE, val |-> result]
  ELSE LET piece == ps[i + 1]
           e == piece.start + piece.length
           src == IF piece.buffer = "ReadOnly" THEN rb ELSE ab
       IN IF chk /\ Ovf(e) THEN [panic |-> TRUE, val |-> result]
          ELSE IF ~SliceOk(src, piece.start, Wrap(e))
               THEN [panic |-> TRUE, val |-> result]
          ELSE connect_loop(ps, rb, ab, i + 1,
                            result \o Slice(src, piece.start, Wrap(e)), chk)

connect_pieces(ps, rb, ab, chk) == connect_loop(ps, rb, ab, 0, <<>>, chk)

Outcome(st, text, len) == [status |-> st, text |-> text, len |-> len]

display_result(rbuf, ab, ps, fsys, fail, chk) ==
  IF rbuf.kind = "Str"
  THEN LET c == connect_pieces(ps, rbuf.buf, ab, chk)
       IN Outcome(IF c.panic THEN "panic" ELSE "ok", c.val, 0)
  ELSE IF fail = "read" \/ ~fsys[rbuf.path].exists
       THEN Outcome("err", <<>>, 0)
  ELSE LET c == connect_pieces(ps, fsys[rbuf.path].content, ab, chk)
       IN Outcome(IF c.panic THEN "panic" ELSE "ok", c.val, 0)

----------------------------------------------------------------------------
\* Edits.

RECURSIVE sum_loop(_, _, _, _, _)
sum_loop(ps, i, n, counter, chk) ==
  IF i >= n THEN [panic |-> FALSE, val |-> counter]
  ELSE IF i >= Len(ps) THEN [panic |-> TRUE, val |-> counter]
  ELSE LET sum == counter + ps[i + 1].length IN
       IF chk /\ Ovf(sum) THEN [panic |-> TRUE, val |-> counter]
       ELSE sum_loop(ps, i + 1, n, Wrap(sum), chk)

Edit(pn, ps, ab) == [panic |-> pn, pieces |-> ps, append_buf |-> ab]

\* insert without the coalescing fast path.
insert_no_coalesce(ps, ab, buf, index, chk) ==
  LET append_buf_len == Len(ab)
      length == Len(buf)
      f == find_piece_at_position(ps, index, chk)
      b == position_is_at_border(ps, index, chk)
      idx == f.val
      is_border == b.val
      new == Piece("AppendOnly", append_buf_len, length)
      c == sum_loop(ps, 0, idx, 0, chk)
      split_index == index - c.val
      d == divide_piece(ps, idx, Wrap(split_index), chk)
  IN IF f.panic THEN Edit(TRUE, ps, ab)
     ELSE IF b.panic THEN Edit(TRUE, ps, ab)
     ELSE IF is_border
          THEN Edit(FALSE, VecInsert(ps, idx, new), ab \o buf)
     ELSE IF c.panic THEN Edit(TRUE, ps, ab)
     ELSE IF chk /\ Ovf(split_index) THEN Edit(TRUE, ps, ab)
     ELSE IF d.panic THEN Edit(TRUE, d.pieces, ab)
     ELSE Edit(FALSE, VecInsert(d.pieces, idx + 1, new), ab \o buf)

\* insert comparing the end of the previous piece with the length of the
\* append buffer after the push.
insert_pushed_len(ps, ab, buf, index, chk) ==
  LET append_buf_len == Len(ab)
      length == Len(buf)
      f == find_piece_at_position(ps, index, chk)
      b == position_is_at_border(ps, index, chk)
      idx == f.val
      is_border == b.val
      new == Piece("AppendOnly", append_buf_len, length)
      prev == ps[idx]
      pe == prev.start + prev.length
      nl == prev.length + length
      c == sum_loop(ps, 0, idx, 0, chk)
      split_index == index - c.val
      d == divide_piece(ps, idx, Wrap(split_index), chk)
  IN IF f.panic THEN Edit(TRUE, ps, ab)
     ELSE IF b.panic THEN Edit(TRUE, ps, ab)
     ELSE IF is_border /\ idx # 0 /\ prev.buffer = "AppendOnly"
             /\ chk /\ Ovf(pe)
          THEN Edit(TRUE, ps, ab)
     ELSE IF is_border /\ idx # 0 /\ prev.buffer = "AppendOnly"
             /\ Wrap(pe) = Len(ab \o buf)
          THEN IF chk /\ Ovf(nl) THEN Edit(TRUE, ps, ab \o buf)
               ELSE Edit(FALSE, [ps EXCEPT ![idx].length = Wrap(nl)], ab \o buf)
     ELSE IF is_border
          THEN Edit(FALSE, VecInsert(ps, idx, new), ab \o buf)
     ELSE IF c.panic THEN Edit(TRUE, ps, ab)
     ELSE IF chk /\ Ovf(split_index) THEN Edit(TRUE, ps, ab)
     ELSE IF d.panic THEN Edit(TRUE, d.pieces, ab)
     ELSE Edit(FALSE, VecInsert(d.pieces, idx + 1, new), ab \o buf)

\* insert whose fast path extends the piece without pushing the text.
insert_no_push(ps, ab, buf, index, chk) ==
  LET append_buf_len == Len(ab)
      length == Len(buf)
      f == find_piece_at_position(ps, index, chk)
      b == position_is_at_border(ps, index, chk)
      idx == f.val
      is_border == b.val
      new == Piece("AppendOnly", append_buf_len, length)
      prev == ps[idx]
      pe == prev.start + prev.length
      nl == prev.length + length
      c == sum_loop(ps, 0, idx, 0, chk)
      split_index == index - c.val
      d == divide_piece(ps, idx, Wrap(split_index), chk)
  IN IF f.panic THEN Edit(TRUE, ps, ab)
     ELSE IF b.panic THEN Edit(TRUE, ps, ab)
     ELSE IF is_border /\ idx # 0 /\ prev.buffer = "AppendOnly"
             /\ chk /\ Ovf(pe)
          THEN Edit(TRUE, ps, ab)
     ELSE IF is_border /\ idx # 0 /\ prev.buffer = "AppendOnly"
             /\ Wrap(pe) = append_buf_len
          THEN IF chk /\ Ovf(nl) THEN Edit(TRUE, ps, ab)
               ELSE Edit(FALSE, [ps EXCEPT ![idx].length = Wrap(nl)], ab)
     ELSE IF is_border
          THEN Edit(FALSE, VecInsert(ps, idx, new), ab \o buf)
     ELSE IF c.panic THEN Edit(TRUE, ps, ab)
     ELSE IF chk /\ Ovf(split_index) THEN Edit(TRUE, ps, ab)
     ELSE IF d.panic THEN Edit(TRUE, d.pieces, ab)
     ELSE Edit(FALSE, VecInsert(d.pieces, idx + 1, new), ab \o buf)

insert(ps, ab, buf, index, chk) ==
  LET append_buf_len == Len(ab)
      length == Len(buf)
      f == find_piece_at_position(ps, index, chk)
      b == position_is_at_border(ps, index, chk)
      idx == f.val
      is_border == b.val
      new == Piece("AppendOnly", append_buf_len, length)
      prev == ps[idx]
      pe == prev.start + prev.length
      nl == prev.length + length
      c == sum_loop(ps, 0, idx, 0, chk)
      split_index == index - c.val
      d == divide_piece(ps, idx, Wrap(split_index), chk)
  IN IF f.panic THEN Edit(TRUE, ps, ab)
     ELSE IF b.panic THEN Edit(TRUE, ps, ab)
     ELSE IF is_border /\ idx # 0 /\ prev.buffer = "AppendOnly"
             /\ chk /\ Ovf(pe)
          THEN Edit(TRUE, ps, ab)
     ELSE IF is_border /\ idx # 0 /\ prev.buffer = "AppendOnly"
             /\ Wrap(pe) = append_buf_len
          THEN IF chk /\ Ovf(nl) THEN Edit(TRUE, ps, ab \o buf)
               ELSE Edit(FALSE, [ps EXCEPT ![idx].length = Wrap(nl)], ab \o buf)
     ELSE IF is_border
          THEN Edit(FALSE, VecInsert(ps, idx, new), ab \o buf)
     ELSE IF c.panic THEN Edit(TRUE, ps, ab)
     ELSE IF chk /\ Ovf(split_index) THEN Edit(TRUE, ps, ab)
     ELSE IF d.panic THEN Edit(TRUE, d.pieces, ab)
     ELSE Edit(FALSE, VecInsert(d.pieces, idx + 1, new), ab \o buf)

\* The test insert makes before it extends the previous piece.
fast_path(ps, ab, index) ==
  LET idx == find_piece_at_position(ps, index, TRUE).val
  IN /\ position_is_at_border(ps, index, TRUE).val
     /\ idx # 0
     /\ ps[idx].buffer = "AppendOnly"
     /\ ps[idx].start + ps[idx].length = Len(ab)

\* delete_char whose split leaves the start of the second half where it was.
delete_char_no_skip(ps, ab, char_index, chk) ==
  LET r == split_piece_index_and_lenght(ps, char_index, chk)
      piece_index == r.piece
      index_in_piece == r.at
      piece == ps[piece_index + 1]
      s1 == piece.start + 1
      l1 == piece.length - 1
      p0 == [ps EXCEPT ![piece_index + 1].start = Wrap(s1)]
      p1 == [p0 EXCEPT ![piece_index + 1].length = Wrap(l1)]
      j == delete_and_join(p1, piece_index, chk)
      d == divide_piece(ps, piece_index, index_in_piece, chk)
      nx == d.pieces[piece_index + 2]
      l2 == nx.length - 1
  IN IF r.panic THEN Edit(TRUE, ps, ab)
     ELSE IF piece_index >= Len(ps) THEN Edit(TRUE, ps, ab)
     ELSE IF index_in_piece = 0
          THEN IF chk /\ Ovf(s1) THEN Edit(TRUE, ps, ab)
               ELSE IF chk /\ Ovf(l1) THEN Edit(TRUE, p0, ab)
               ELSE IF Wrap(l1) = 0 THEN Edit(j.panic, j.pieces, ab)
               ELSE Edit(FALSE, p1, ab)
     ELSE IF chk /\ Ovf(l1) THEN Edit(TRUE, ps, ab)
     ELSE IF index_in_piece = Wrap(l1)
          THEN Edit(FALSE, [ps EXCEPT ![piece_index + 1].length = Wrap(l1)], ab)
     ELSE IF d.panic THEN Edit(TRUE, d.pieces, ab)
     ELSE IF chk /\ Ovf(l2) THEN Edit(TRUE, d.pieces, ab)
     ELSE Edit(FALSE, [d.pieces EXCEPT ![piece_index + 2].length = Wrap(l2)], ab)

delete_char(ps, ab, char_index, chk) ==
  LET r == split_piece_index_and_lenght(ps, char_index, chk)
      piece_index == r.piece
      index_in_piece == r.at
      piece == ps[piece_index + 1]
      s1 == piece.start + 1
      l1 == piece.length - 1
      p0 == [ps EXCEPT ![piece_index + 1].start = Wrap(s1)]
      p1 == [p0 EXCEPT ![piece_index + 1].length = Wrap(l1)]
      j == delete_and_join(p1, piece_index, chk)
      d == divide_piece(ps, piece_index, index_in_piece, chk)
      nx == d.pieces[piece_index + 2]
      s2 == nx.start + 1
      l2 == nx.length - 1
      q0 == [d.pieces EXCEPT ![piece_index + 2].start = Wrap(s2)]
      q1 == [q0 EXCEPT ![piece_index + 2].length = Wrap(l2)]
  IN IF r.panic THEN Edit(TRUE, ps, ab)
     ELSE IF piece_index >= Len(ps) THEN Edit(TRUE, ps, ab)
     ELSE IF index_in_piece = 0
          THEN IF chk /\ Ovf(s1) THEN Edit(TRUE, ps, ab)
               ELSE IF chk /\ Ovf(l1) THEN Edit(TRUE, p0, ab)
               ELSE IF Wrap(l1) = 0 THEN Edit(j.panic, j.pieces, ab)
               ELSE Edit(FALSE, p1, ab)
     ELSE IF chk /\ Ovf(l1) THEN Edit(TRUE, ps, ab)
     ELSE IF index_in_piece = Wrap(l1)
          THEN Edit(FALSE, [ps EXCEPT ![piece_index + 1].length = Wrap(l1)], ab)
     ELSE IF d.panic THEN Edit(TRUE, d.pieces, ab)
     ELSE IF chk /\ Ovf(s2) THEN Edit(TRUE, d.pieces, ab)
     ELSE IF chk /\ Ovf(l2) THEN Edit(TRUE, q0, ab)
     ELSE Edit(FALSE, q1, ab)

----------------------------------------------------------------------------
\* Persisting.  fail names the I/O call that fails ("none" when all succeed);
\* partial is the number of bytes a failing write leaves in the file.

Saved(st, len, fsys) == [status |-> st, len |-> len, fs |-> fsys]

\* save writing the read buffer instead of the connected pieces.
save_read_buffer(ps, ab, fsys, path, read_buffer, fail, partial, chk) ==
  LET created == [fsys EXCEPT ![path] = FileOf(<<>>)]
      c == connect_pieces(ps, read_buffer, ab, chk)
  IN IF fail = "create" THEN Saved("err", 0, fsys)
     ELSE IF c.panic THEN Saved("panic", 0, created)
     ELSE IF fail = "write"
          THEN Saved("err", 0,
                     [fsys EXCEPT ![path] = FileOf(SubSeq(c.val, 1, partial))])
     ELSE IF fail = "metadata"
          THEN Saved("err", 0, [fsys EXCEPT ![path] = FileOf(c.val)])
     ELSE Saved("ok", Len(read_buffer),
                [fsys EXCEPT ![path] = FileOf(read_buffer)])

save(ps, ab, fsys, path, read_buffer, fail, partial, chk) ==
  LET created == [fsys EXCEPT ![path] = FileOf(<<>>)]
      c == connect_pieces(ps, read_buffer, ab, chk)
  IN IF fail = "create" THEN Saved("err", 0, fsys)
     ELSE IF c.panic THEN Saved("panic", 0, created)
     ELSE IF fail = "write"
          THEN Saved("err", 0,
                     [fsys EXCEPT ![path] = FileOf(SubSeq(c.val, 1, partial))])
     ELSE IF fail = "metadata"
          THEN Saved("err", 0, [fsys EXCEPT ![path] = FileOf(c.val)])
     ELSE Saved("ok", Len(c.val), [fsys EXCEPT ![path] = FileOf(c.val)])

Table(rbuf, ab, ps, fsys, st, len) ==
  [read_buf |-> rbuf, append_buf |-> ab, pieces |-> ps, fs |-> fsys,
   status |-> st, len |-> len]

save_file(rbuf, ab, ps, fsys, fail, partial, chk) ==
  IF rbuf.kind = "File"
  THEN IF fail = "open" \/ ~fsys[rbuf.path].exists
       THEN Table(rbuf, ab, ps, fsys, "err", 0)
       ELSE IF fail = "read" THEN Table(rbuf, ab, ps, fsys, "err", 0)
       ELSE LET r == save(ps, ab, fsys, rbuf.path, fsys[rbuf.path].content,
                          fail, partial, chk)
            IN IF r.status = "ok"
               THEN Table(rbuf, ab, <<Piece("ReadOnly", 0, r.len)>>, r.fs,
                          "ok", r.len)
               ELSE Table(rbuf, ab, ps, r.fs, r.status, 0)
  ELSE Table(rbuf, ab, ps, fsys, "err", 0)

\* save_to_file switching to the new path before the save has succeeded.
save_to_file_early(rbuf, ab, ps, fsys, path, fail, partial, chk) ==
  LET unreadable == rbuf.kind = "File"
                    /\ (fail \in {"open", "read"} \/ ~fsys[rbuf.path].exists)
      read_buffer == IF rbuf.kind = "Str" THEN rbuf.buf
                     ELSE fsys[rbuf.path].content
      r == save(ps, ab, fsys, path, read_buffer, fail, partial, chk)
  IN IF unreadable THEN Table(rbuf, ab, ps, fsys, "err", 0)
     ELSE IF r.status # "ok"
          THEN Table(ReadBufferFile(path), ab, ps, r.fs, r.status, 0)
     ELSE Table(ReadBufferFile(path), ab, <<Piece("ReadOnly", 0, r.len)>>,
                r.fs, "ok", r.len)

save_to_file(rbuf, ab, ps, fsys, path, fail, partial, chk) ==
  LET unreadable == rbuf.kind = "File"
                    /\ (fail \in {"open", "read"} \/ ~fsys[rbuf.path].exists)
      read_buffer == IF rbuf.kind = "Str" THEN rbuf.buf
                     ELSE fsys[rbuf.path].content
      r == save(ps, ab, fsys, path, read_buffer, fail, partial, chk)
  IN IF unreadable THEN Table(rbuf, ab, ps, fsys, "err", 0)
     ELSE IF r.status # "ok" THEN Table(rbuf, ab, ps, r.fs, r.status, 0)
     ELSE Table(ReadBufferFile(path), ab, <<Piece("ReadOnly", 0, r.len)>>,
                r.fs, "ok", r.len)

----------------------------------------------------------------------------
\* The state machine.  last records the latest call and its outcome:
\* status is "ok" for a normal return or Ok(..), "err" for Err(..) and
\* "panic" for a panic.

Call(op, buf, index, st) ==
  [op |-> op, buf |-> buf, index |-> index, status |-> st]

\* run follows typing: n counts the latest calls that were insert calls of
\* one character which returned normally, each at the index right after the
\* one before it, and base is the number of pieces before the first of them.
NoRun == [n |-> 0, base |-> 0]

TypingRun(buf, index, ok) ==
  IF Len(buf) # 1 \/ ~ok THEN NoRun
  ELSE IF run.n > 0 /\ index = last.index + 1
       THEN [n |-> run.n + 1, base |-> run.base]
  ELSE [n |-> 1, base |-> Len(pieces)]

\* A call is made while no panic has ended the run.  Exploration also stops
\* at a table in which wrapped arithmetic left a span beyond MaxLen.
Running ==
  /\ last.status # "panic"
  /\ \A i \in 1..Len(pieces) : pieces[i].start + pieces[i].length <= MaxLen

\* Indices handed to insert and delete_char: every index up to the total
\* length, and the first one beyond it.
Indices == 0..(SumLengths(pieces) + 1)

\* Caps on the table an insert may leave behind; slack tightens them.
Within(ps, ab, slack) ==
  /\ Len(ps) <= MaxPieces - slack
  /\ SumLengths(ps) <= MaxTextLen - slack
  /\ Len(ab) <= MaxAppendLen - slack
  /\ Cardinality({i \in 1..Len(ps) : ps[i].length = 0}) <= MaxEmptyPieces

InitStrOf(texts) ==
  \E T \in texts :
    /\ read_buf = from_str(T).read_buf
    /\ append_buf = from_str(T).append_buf
    /\ pieces = from_str(T).pieces
    /\ fs = [p \in Paths |-> NoFile]
    /\ last = Call("from_str", T, 0, "ok")
    /\ run = NoRun

\* from_file succeeds on an existing file, whose content is T.
InitFileOf(texts) ==
  \E T \in texts, path \in Paths :
    /\ read_buf = from_file(path, Len(T)).read_buf
    /\ append_buf = from_file(path, Len(T)).append_buf
    /\ pieces = from_file(path, Len(T)).pieces
    /\ fs = [p \in Paths |-> IF p = path THEN FileOf(T) ELSE NoFile]
    /\ last = Call("from_file", T, 0, "ok")
    /\ run = NoRun

InsertWithin(slack) ==
  /\ Running
  /\ \E buf \in InsertTexts(append_buf), index \in Indices,
        overflow_checks \in BOOLEAN :
       LET r == insert(pieces, append_buf, buf, index, overflow_checks)
       IN /\ Within(r.pieces, r.append_buf, slack)
          /\ pieces' = r.pieces
          /\ append_buf' = r.append_buf
          /\ last' = Call("insert", buf, index,
                          IF r.panic THEN "panic" ELSE "ok")
          /\ run' = TypingRun(buf, index, ~r.panic)
  /\ UNCHANGED <<read_buf, fs>>

DeleteChar ==
  /\ Running
  /\ \E char_index \in Indices, overflow_checks \in BOOLEAN :
       LET r == delete_char(pieces, append_buf, char_index, overflow_checks)
       IN /\ pieces' = r.pieces
          /\ append_buf' = r.append_buf
          /\ last' = Call("delete_char", <<>>, char_index,
                          IF r.panic THEN "panic" ELSE "ok")
          /\ run' = NoRun
  /\ UNCHANGED <<read_buf, fs>>

FailPoints == {"none", "open", "read", "create", "write", "metadata"}

\* The failure points a persist call can meet, and the bytes a failed
\* write may have left behind.
CanFail(rbuf, fail) ==
  fail \in {"open", "read"} => rbuf.kind = "File"
Partial(fail, text) ==
  IF fail = "write" THEN 0..(IF Len(text) = 0 THEN 0 ELSE Len(text) - 1)
  ELSE {0}

\* What display_result returns in the current state when its read succeeds.
Materialized ==
  display_result(read_buf, append_buf, pieces, fs, "none", TRUE)

SaveFile ==
  /\ Running
  /\ \E fail \in FailPoints, overflow_checks \in BOOLEAN :
       /\ IF read_buf.kind = "File" THEN CanFail(read_buf, fail)
          ELSE fail = "none"
       /\ \E partial \in Partial(fail, Materialized.text) :
            LET r == save_file(read_buf, append_buf, pieces, fs, fail, partial,
                               overflow_checks)
            IN /\ read_buf' = r.read_buf
               /\ append_buf' = r.append_buf
               /\ pieces' = r.pieces
               /\ fs' = r.fs
               /\ last' = Call("save_file", <<>>, 0, r.status)
               /\ run' = NoRun

SaveToFile ==
  /\ Running
  /\ \E path \in Paths, fail \in FailPoints, overflow_checks \in BOOLEAN :
       /\ CanFail(read_buf, fail)
       /\ \E partial \in Partial(fail, Materialized.text) :
            LET r == save_to_file(read_buf, append_buf, pieces, fs, path, fail,
                                  partial, overflow_checks)
            IN /\ read_buf' = r.read_buf
               /\ append_buf' = r.append_buf
               /\ pieces' = r.pieces
               /\ fs' = r.fs
               /\ last' = Call("save_to_file", <<>>, 0, r.status)
               /\ run' = NoRun

\* The whole interface on a string-backed or file-backed table.  The file
\* contents multiply the tables, so its inserts keep one unit of slack.
Init == InitStrOf(PersistTexts) \/ InitFileOf(PersistTexts)

Insert == InsertWithin(1)

Next == Insert \/ DeleteChar \/ SaveFile \/ SaveToFile

Spec == Init /\ [][Next]_vars

\* A string-backed table under edits alone.
InitStr == InitStrOf(InitTexts)

InsertStr == InsertWithin(0)

NextEdit == InsertStr \/ DeleteChar

SpecStr == InitStr /\ [][NextEdit]_vars

\* A string-backed table under typing: every insert is of one character, and
\* the table may grow one piece and one character beyond an edited one.
TypeChar == InsertWithin(-1) /\ Len(last'.buf) = 1

NextType == TypeChar \/ DeleteChar

SpecType == InitStr /\ [][NextType]_vars

\* The whole interface on a table made by from_str, under valid calls alone:
\* an insert of non-empty text at an index up to the total length, a
\* delete_char at an index below it, and a persist call that returns Ok.
ValidInsert ==
  InsertStr /\ last'.buf # <<>> /\ last'.index <= SumLengths(pieces)

ValidDelete == DeleteChar /\ last'.index < SumLengths(pieces)

SavedFile == SaveFile /\ last'.status = "ok"

SavedToFile == SaveToFile /\ last'.status = "ok"

NextValid == ValidInsert \/ ValidDelete \/ SavedFile \/ SavedToFile

SpecValid == InitStr /\ [][NextValid]_vars

TypeOK ==
  /\ \A i \in 1..Len(pieces) :
       /\ pieces[i].buffer \in {"ReadOnly", "AppendOnly"}
       /\ pieces[i].start \in 0..(W - 1)
       /\ pieces[i].length \in 0..(W - 1)
  /\ Len(append_buf) <= MaxAppendLen + 1
  /\ run.n \in 0..(MaxAppendLen + 1)
  /\ run.base \in 0..(MaxPieces + 1)
  /\ \A p \in Paths : Len(fs[p].content) <= MaxLen

----------------------------------------------------------------------------
\* Properties.

Persisted == last.op \in {"save_file", "save_to_file"}

\* C1: an insert of non-empty text s at an index at within 0..|T| of a table
\* that materializes to T returns normally and leaves a table that
\* materializes to T[0..at] + s + T[at..].
C1_InsertCorrect ==
  [][(/\ last'.op = "insert"
      /\ last'.buf # <<>>
      /\ Materialized.status = "ok"
      /\ last'.index <= Len(Materialized.text))
     => /\ last'.status = "ok"
        /\ Materialized'.status = "ok"
        /\ Materialized'.text =
             SubSeq(Materialized.text, 1, last'.index) \o last'.buf
             \o SubSeq(Materialized.text, last'.index + 1,
                       Len(Materialized.text))]_vars

C1_Witness ==
  /\ last.op = "insert" /\ last.status = "ok" /\ last.index = 1
  /\ Len(pieces) = 3
  /\ pieces[1] = Piece("ReadOnly", 0, 1)
  /\ pieces[2] = Piece("AppendOnly", 0, 1)
  /\ pieces[3].buffer = "ReadOnly" /\ pieces[3].length > 0
  /\ Materialized.text = <<"a", "u">> \o SubSeq(read_buf.buf, 2, Len(read_buf.buf))

\* C2: a delete_char at an index at < |T| of a table that materializes to a
\* non-empty T returns normally and leaves a table that materializes to
\* T[0..at] + T[at+1..].
C2_DeleteCorrect ==
  [][(/\ last'.op = "delete_char"
      /\ Materialized.status = "ok"
      /\ last'.index < Len(Materialized.text))
     => /\ last'.status = "ok"
        /\ Materialized'.status = "ok"
        /\ Materialized'.text =
             SubSeq(Materialized.text, 1, last'.index)
             \o SubSeq(Materialized.text, last'.index + 2,
                       Len(Materialized.text))]_vars

\* C3: right after from_str(T), display_result returns exactly T.
C3_RoundTrip ==
  last.op = "from_str"
    => Materialized.status = "ok" /\ Materialized.text = last.buf

C3_Witness ==
  /\ last.op = "from_str" /\ Len(last.buf) = MaxInitLen
  /\ Materialized.status = "ok" /\ Materialized.text = last.buf

\* C4: a delete_char at an index at >= total length does not return normally
\* and leaves the pieces, the append buffer and the materialized text as they
\* were.
C4_DeleteOutOfRange ==
  [][(/\ last'.op = "delete_char"
      /\ last'.index >= SumLengths(pieces))
     => /\ last'.status # "ok"
        /\ pieces' = pieces
        /\ append_buf' = append_buf
        /\ Materialized' = Materialized]_vars

\* C5: an insert at an index at > total length is reported as an error, not
\* a panic, and leaves the pieces and the append buffer as they were.
C5_InsertOutOfRange ==
  [][(/\ last'.op = "insert"
      /\ last'.index > SumLengths(pieces))
     => /\ last'.status = "err"
        /\ pieces' = pieces
        /\ append_buf' = append_buf]_vars

\* C6: a successful save_file or save_to_file leaves the target file holding
\* the text the table materialized to before the call, the table
\* materializing to that same text, and exactly one ReadOnly piece with
\* start 0 and the length of that text.
C6_PersistRoundTrip ==
  [][(last'.op \in {"save_file", "save_to_file"} /\ last'.status = "ok")
     => /\ Materialized.status = "ok"
        /\ read_buf'.kind = "File"
        /\ fs'[read_buf'.path] = FileOf(Materialized.text)
        /\ Materialized' = Materialized
        /\ pieces' = <<Piece("ReadOnly", 0, Len(Materialized.text))>>]_vars

C6_Witness ==
  /\ last.op = "save_file" /\ last.status = "ok"
  /\ Len(pieces) = 1
  /\ Materialized.status = "ok"
  /\ \E i \in 1..Len(Materialized.text) : Materialized.text[i] = "u"
  /\ \E i \in 1..Len(Materialized.text) : Materialized.text[i] = "a"

\* C7: after a successful save_file or save_to_file the append buffer is
\* empty.
C7_PersistClearsAppend ==
  [][(last'.op \in {"save_file", "save_to_file"} /\ last'.status = "ok")
     => append_buf' = <<>>]_vars

\* C8: a save_file or save_to_file that returns an error leaves the pieces,
\* the append buffer and the read-buffer reference as they were.
C8_FailedPersistUnchanged ==
  [][(last'.op \in {"save_file", "save_to_file"} /\ last'.status = "err")
     => /\ pieces' = pieces
        /\ append_buf' = append_buf
        /\ read_buf' = read_buf]_vars

C8_Witness ==
  /\ last.op = "save_to_file" /\ last.status = "err"
  /\ read_buf.kind = "Str"
  /\ \E p \in Paths : fs[p].exists
  /\ Len(pieces) >= 2

\* C9: an insert of the empty text at an index within 0..total length
\* leaves the pieces and the append buffer as they were.
C9_EmptyInsertNoOp ==
  [][(/\ last'.op = "insert"
      /\ last'.buf = <<>>
      /\ last'.index <= SumLengths(pieces))
     => /\ pieces' = pieces
        /\ append_buf' = append_buf]_vars

\* C10: every piece has length > 0, and from_str of the empty text yields
\* zero pieces.
C10_NoZeroLength ==
  /\ \A i \in 1..Len(pieces) : pieces[i].length > 0
  /\ (last.op = "from_str" /\ last.buf = <<>>) => pieces = <<>>

\* C11: an insert of non-empty text s at index 0 right after from_str of the
\* empty text leaves a table that materializes to s and whose pieces are
\* exactly one AppendOnly piece with start 0 and length |s|.
C11_InsertIntoEmpty ==
  [][(/\ last.op = "from_str"
      /\ last.buf = <<>>
      /\ last'.op = "insert"
      /\ last'.buf # <<>>
      /\ last'.index = 0)
     => /\ Materialized'.status = "ok"
        /\ Materialized'.text = last'.buf
        /\ pieces' = <<Piece("AppendOnly", 0, Len(last'.buf))>>]_vars

\* C12: an insert of non-empty text at an index within 0..total length adds
\* at most 2 pieces, and none when the fast path is taken; on a single-piece
\* table an insert strictly inside the piece leaves 3 pieces whose middle one
\* is AppendOnly.
C12_InsertPieceBound ==
  [][(/\ last'.op = "insert"
      /\ last'.buf # <<>>
      /\ last'.index <= SumLengths(pieces))
     => /\ Len(pieces') <= Len(pieces) + 2
        /\ fast_path(pieces, append_buf, last'.index)
             => Len(pieces') = Len(pieces)
        /\ (/\ Len(pieces) = 1
            /\ 0 < last'.index
            /\ last'.index < pieces[1].length)
             => /\ Len(pieces') = 3
                /\ pieces'[2].buffer = "AppendOnly"]_vars

C12_Witness ==
  /\ last.op = "insert" /\ last.status = "ok" /\ last.index = 1
  /\ run = [n |-> 1, base |-> 1]
  /\ pieces = <<Piece("ReadOnly", 0, 1), Piece("AppendOnly", Len(append_buf) - 1, 1),
                Piece("ReadOnly", 1, 1)>>

\* C13: while insert calls of one character follow one another, each at the
\* index right after the one before it, the table holds at most 2 pieces
\* more than it did before the first of them, however many they are.
C13_TypingBound ==
  run.n > 0 => Len(pieces) <= run.base + 2

C13_Witness ==
  /\ run.n >= 3
  /\ Len(pieces) = run.base + 2
  /\ last.op = "insert" /\ last.status = "ok"

\* C14: a delete_char that removes the only character of a piece with a
\* neighbour on each side, wherever the piece stands, removes the piece, and
\* replaces the two neighbours by one merged piece when they have the same
\* buffer and the left one ends where the right one starts.
C14_RemoveAndMerge ==
  [][(/\ last'.op = "delete_char"
      /\ last'.index < SumLengths(pieces))
     => \A k \in 2..(Len(pieces) - 1) :
          (/\ pieces[k].length = 1
           /\ SumLengths(SubSeq(pieces, 1, k - 1)) = last'.index)
          => LET left == pieces[k - 1]
                 right == pieces[k + 1]
             IN pieces' =
                  IF /\ left.buffer = right.buffer
                     /\ left.start + left.length = right.start
                  THEN SubSeq(pieces, 1, k - 2)
                       \o <<Piece(left.buffer, left.start,
                                  left.length + right.length)>>
                       \o SubSeq(pieces, k + 2, Len(pieces))
                  ELSE SubSeq(pieces, 1, k - 1)
                       \o SubSeq(pieces, k + 1, Len(pieces))]_vars

\* C15: a delete_char that removes the only character of the first or of the
\* last piece returns normally and leaves the other pieces, unchanged and in
\* order, as the table.
C15_RemoveEndPiece ==
  [][(/\ last'.op = "delete_char"
      /\ last'.index < SumLengths(pieces))
     => \A k \in {1, Len(pieces)} :
          (/\ pieces[k].length = 1
           /\ SumLengths(SubSeq(pieces, 1, k - 1)) = last'.index)
          => /\ last'.status = "ok"
             /\ pieces' = SubSeq(pieces, 1, k - 1)
                          \o SubSeq(pieces, k + 1, Len(pieces))]_vars

\* C16: a delete_char at an index below the total length adds at most 1
\* piece, and adds one exactly when the character lies strictly inside its
\* piece, at an offset with 0 < offset < length - 1; the piece is then
\* replaced by two pieces of its buffer spanning [start, start + offset) and
\* [start + offset + 1, start + length).
C16_DeletePieceBound ==
  [][(/\ last'.op = "delete_char"
      /\ last'.index < SumLengths(pieces))
     => /\ Len(pieces') <= Len(pieces) + 1
        /\ \A k \in 1..Len(pieces) :
             LET before == SumLengths(SubSeq(pieces, 1, k - 1))
                 offset == last'.index - before
                 p == pieces[k]
             IN (before <= last'.index /\ last'.index < before + p.length)
                => IF 0 < offset /\ offset < p.length - 1
                   THEN pieces' =
                          SubSeq(pieces, 1, k - 1)
                          \o <<Piece(p.buffer, p.start, offset),
                               Piece(p.buffer, p.start + offset + 1,
                                     p.length - offset - 1)>>
                          \o SubSeq(pieces, k + 1, Len(pieces))
                   ELSE Len(pieces') <= Len(pieces)]_vars

C16_Witness ==
  /\ last.op = "delete_char" /\ last.status = "ok" /\ last.index = 2
  /\ read_buf.buf = <<"a">> /\ Len(append_buf) = 3
  /\ pieces = <<Piece("ReadOnly", 0, 1), Piece("AppendOnly", 0, 1),
                Piece("AppendOnly", 2, 1)>>

\* C17: an insert at an index, the total length included, where an
\* AppendOnly piece ends whose span ends at the length of the append buffer
\* extends that piece by the length of the text and leaves every other piece
\* as it was.
C17_FastPathTaken ==
  [][last'.op = "insert"
     => \A k \in 1..Len(pieces) :
          (/\ pieces[k].buffer = "AppendOnly"
           /\ pieces[k].start + pieces[k].length = Len(append_buf)
           /\ SumLengths(SubSeq(pieces, 1, k)) = last'.index)
          => pieces' = [pieces EXCEPT
                          ![k].length = pieces[k].length + Len(last'.buf)]]_vars

\* C18: an insert or a delete_char leaves the append buffer it found as a
\* prefix of the append buffer; an insert that returns normally leaves it
\* followed by exactly the inserted text; a delete_char leaves the append
\* buffer and the read buffer as they were, and an insert leaves the read
\* buffer as it was.
C18_AppendOnly ==
  [][/\ last'.op \in {"insert", "delete_char"}
          => /\ Len(append_buf') >= Len(append_buf)
             /\ SubSeq(append_buf', 1, Len(append_buf)) = append_buf
             /\ read_buf' = read_buf
             /\ fs' = fs
     /\ (last'.op = "insert" /\ last'.status = "ok")
          => append_buf' = append_buf \o last'.buf
     /\ last'.op = "delete_char" => append_buf' = append_buf]_vars

C18_Witness ==
  /\ last.op = "insert" /\ last.status = "ok" /\ last.buf = <<"v">>
  /\ append_buf = <<"u", "v">>
  /\ \E k \in 1..Len(pieces) : pieces[k] = Piece("AppendOnly", 0, 2)

\* C19: in a table made by from_str and then put through valid insert and
\* delete_char calls and persist calls that succeed, every piece ends within
\* the buffer it refers to, the append buffer for an AppendOnly piece and
\* the read buffer's text for a ReadOnly one, and materializing succeeds.
C19_SpansInBounds ==
  /\ \A k \in 1..Len(pieces) :
       pieces[k].start + pieces[k].length <=
         IF pieces[k].buffer = "AppendOnly" THEN Len(append_buf)
         ELSE IF read_buf.kind = "Str" THEN Len(read_buf.buf)
         ELSE Len(fs[read_buf.path].content)
  /\ Materialized.status = "ok"

C19_Witness ==
  /\ last.op = "delete_char" /\ last.status = "ok"
  /\ read_buf.kind = "File"
  /\ \E k \in 1..Len(pieces) :
       /\ pieces[k].buffer = "ReadOnly" /\ pieces[k].start > 0
       /\ pieces[k].start + pieces[k].length = Len(fs[read_buf.path].content)
  /\ \E k \in 1..Len(pieces) :
       /\ pieces[k].buffer = "AppendOnly"
       /\ pieces[k].start + pieces[k].length = Len(append_buf)

\* C20: in a table made by from_str and then put through valid insert and
\* delete_char calls and persist calls that succeed, no character of a
\* buffer lies in the spans [start, start + length) of two pieces.
C20_NoOverlap ==
  \A i, j \in 1..Len(pieces) :
    (i < j /\ pieces[i].buffer = pieces[j].buffer)
    => \A c \in 0..MaxLen :
         ~(/\ pieces[i].start <= c
           /\ c < pieces[i].start + pieces[i].length
           /\ pieces[j].start <= c
           /\ c < pieces[j].start + pieces[j].length)

C20_Witness ==
  /\ last.op = "insert" /\ last.status = "ok"
  /\ read_buf.kind = "File"
  /\ Len(pieces) = 3
  /\ pieces[1].buffer = "ReadOnly" /\ pieces[3].buffer = "ReadOnly"
  /\ pieces[1].length > 0 /\ pieces[3].length > 0
  /\ pieces[1].start + pieces[1].length = pieces[3].start

====
